---- MODULE Spec2Model ----
(***************************************************************************)
(* Resume ATS score analyser (resume/app.py).                              *)
(*                                                                         *)
(* A text is a sequence of one-character strings.  Four specifications     *)
(* share the variables:                                                    *)
(*   SpecCompare   compare_with_job_description on every pair of texts     *)
(*                 up to the length bounds;                                *)
(*   SpecOptimize  optimize_resume followed by create_optimized_docx;      *)
(*   Spec          the routes: register, login, logout, upload, view and   *)
(*                 download, run by several clients over one database;     *)
(*   SpecRegister  register in two steps, the existence checks and the     *)
(*                 commit, with the requests of the clients interleaved.   *)
(***************************************************************************)
EXTENDS Integers, Sequences, FiniteSets, TLC

VARIABLES
    resume_text,      \* the text parsed from the uploaded file
    job_description,  \* the pasted job description
    analysis,         \* the dict compare_with_job_description returns
    optimized,        \* the text optimize_resume returns
    doc,              \* the paragraphs of the document create_optimized_docx builds
    pc,               \* the position in the pipeline
    users,            \* the user table, in id order
    resumes,          \* the resume table, in id order
    session,          \* per client, the id of the logged-in user (0: none)
    pending,          \* per client, a register request between check and commit
    response          \* per client, the response to its last request

vars == <<resume_text, job_description, analysis, optimized, doc, pc,
          users, resumes, session, pending, response>>

coreVars == <<resume_text, job_description, analysis, optimized, doc, pc>>

appVars == <<users, resumes, session, pending, response>>

(***************************************************************************)
(* Bounds.                                                                 *)
(***************************************************************************)
MaxResumeLen == 3

MaxJobLen == 4

(***************************************************************************)
(* Characters.                                                             *)
(***************************************************************************)
LowerLetters ==
    {"a","b","c","d","e","f","g","h","i","j","k","l","m",
     "n","o","p","q","r","s","t","u","v","w","x","y","z"}

UpperLetters ==
    {"A","B","C","D","E","F","G","H","I","J","K","L","M",
     "N","O","P","Q","R","S","T","U","V","W","X","Y","Z"}

Digits == {"0","1","2","3","4","5","6","7","8","9"}

\* What \w matches, on the characters of the model.
WordChars == LowerLetters \cup UpperLetters \cup Digits \cup {"_"}

\* What str.strip() removes, on the characters of the model.
Whitespace == {" ", "\t", "\n", "\r"}

UpperOf ==
    [c \in LowerLetters |->
        CASE c = "a" -> "A" [] c = "b" -> "B" [] c = "c" -> "C" [] c = "d" -> "D"
          [] c = "e" -> "E" [] c = "f" -> "F" [] c = "g" -> "G" [] c = "h" -> "H"
          [] c = "i" -> "I" [] c = "j" -> "J" [] c = "k" -> "K" [] c = "l" -> "L"
          [] c = "m" -> "M" [] c = "n" -> "N" [] c = "o" -> "O" [] c = "p" -> "P"
          [] c = "q" -> "Q" [] c = "r" -> "R" [] c = "s" -> "S" [] c = "t" -> "T"
          [] c = "u" -> "U" [] c = "v" -> "V" [] c = "w" -> "W" [] c = "x" -> "X"
          [] c = "y" -> "Y" [] c = "z" -> "Z"]

\* str.lower() on one character.
LowerChar(c) ==
    IF c \in UpperLetters THEN CHOOSE l \in LowerLetters : UpperOf[l] = c ELSE c

\* str.lower()
Lower(s) == [i \in 1..Len(s) |-> LowerChar(s[i])]

Range(s) == {s[i] : i \in 1..Len(s)}

\* The texts of at most n characters over the alphabet A.
TextsOver(A, n) == UNION {[1..k -> A] : k \in 0..n}

(***************************************************************************)
(* re.findall(r'\b\w+\b', s): the maximal runs of word characters, left to *)
(* right.  At position i with the run cur open.                            *)
(***************************************************************************)
RECURSIVE FindAllFrom(_, _, _)
FindAllFrom(s, i, cur) ==
    IF i > Len(s)
    THEN IF cur = <<>> THEN <<>> ELSE <<cur>>
    ELSE IF s[i] \in WordChars
         THEN FindAllFrom(s, i + 1, Append(cur, s[i]))
         ELSE IF cur = <<>>
              THEN FindAllFrom(s, i + 1, <<>>)
              ELSE <<cur>> \o FindAllFrom(s, i + 1, <<>>)

FindAll(s) == FindAllFrom(s, 1, <<>>)

\* The tokens without .lower().
WordSetCaseSensitive(text) == Range(FindAll(text))

\* set(re.findall(r'\b\w+\b', text.lower()))
WordSet(text) == Range(FindAll(Lower(text)))

\* list(S) of a set: its elements once each, in an order the hash decides.
ListsOf(S) ==
    {f \in [1..Cardinality(S) -> S] : \A i, j \in 1..Cardinality(S) : f[i] = f[j] => i = j}

(***************************************************************************)
(* compare_with_job_description.  The score is the exact quotient          *)
(* num / den of the float the code computes.                               *)
(***************************************************************************)
ZeroScore == [num |-> 0, den |-> 1]

\* The resume's words counted instead of the matches.
ScoreOfResumeWords(resume_words, job_words) ==
    IF Cardinality(job_words) > 0
    THEN [num |-> Cardinality(resume_words) * 100, den |-> Cardinality(job_words)]
    ELSE ZeroScore

\* The ratio without the factor 100.
ScoreOfFraction(resume_words, job_words) ==
    IF Cardinality(job_words) > 0
    THEN [num |-> Cardinality(job_words \cap resume_words), den |-> Cardinality(job_words)]
    ELSE ZeroScore

\* No job word counted as every job word found.
ScoreOfVacuousFull(resume_words, job_words) ==
    IF Cardinality(job_words) > 0
    THEN [num |-> Cardinality(job_words \cap resume_words) * 100,
          den |-> Cardinality(job_words)]
    ELSE [num |-> 100, den |-> 1]

ScoreOf(resume_words, job_words) ==
    IF Cardinality(job_words) > 0
    THEN [num |-> Cardinality(job_words \cap resume_words) * 100,
          den |-> Cardinality(job_words)]
    ELSE ZeroScore

\* The difference taken the other way round.
ImportantWordsSwapped(resume_words, job_words) == resume_words \ job_words

important_words(resume_words, job_words) == job_words \ resume_words

\* The dicts the call can return: one per order of list(important_words).
compare_with_job_description(rt, jd) ==
    LET resume_words == WordSet(rt)
        job_words == WordSet(jd)
    IN  {[score |-> ScoreOf(resume_words, job_words), missing_keywords |-> l] :
            l \in ListsOf(important_words(resume_words, job_words))}

NoAnalysis == [score |-> ZeroScore, missing_keywords |-> <<>>]

(***************************************************************************)
(* SpecCompare: the comparison on every pair of texts within the bounds.   *)
(***************************************************************************)
CompareChars == {"a", "b", "B", " "}

\* The routes are not part of the specifications of the pure functions.
AppIdle ==
    /\ users = <<>>
    /\ resumes = <<>>
    /\ session = <<>>
    /\ pending = <<>>
    /\ response = <<>>

InitCompare ==
    /\ resume_text \in TextsOver(CompareChars, MaxResumeLen)
    /\ job_description \in TextsOver(CompareChars, MaxJobLen)
    /\ analysis = NoAnalysis
    /\ optimized = <<>>
    /\ doc = <<>>
    /\ pc = "start"
    /\ AppIdle

Compare ==
    /\ pc = "start"
    /\ analysis' \in compare_with_job_description(resume_text, job_description)
    /\ pc' = "compared"
    /\ UNCHANGED <<resume_text, job_description, optimized, doc>>
    /\ UNCHANGED appVars

NextCompare == Compare

SpecCompare == InitCompare /\ [][NextCompare]_vars

(***************************************************************************)
(* optimize_resume.                                                        *)
(***************************************************************************)
\* The slice bound of analysis['missing_keywords'][:10].
KeywordLimit == 10

SuggestionHeader ==
    <<"\n","\n","-","-","-"," ","O","P","T","I","M","I","Z","A","T","I","O",
      "N"," ","S","U","G","G","E","S","T","I","O","N","S"," ","-","-","-",
      "\n">>

KeywordsLead ==
    <<"C","o","n","s","i","d","e","r"," ","a","d","d","i","n","g"," ","t",
      "h","e","s","e"," ","k","e","y","w","o","r","d","s",":"," ">>

MatchesLead ==
    <<"Y","o","u","r"," ","r","e","s","u","m","e"," ","m","a","t","c","h",
      "e","s"," ">>

MatchesTail ==
    <<"%"," ","o","f"," ","j","o","b"," ","r","e","q","u","i","r","e","m",
      "e","n","t","s",".","\n">>

\* l[:n]
Take(l, n) == SubSeq(l, 1, IF Len(l) < n THEN Len(l) ELSE n)

\* The list without the slice.
AllKeywords(l) == l

FirstKeywords(l) == Take(l, KeywordLimit)

\* sep.join(l)
RECURSIVE Join(_, _)
Join(sep, l) ==
    IF l = <<>> THEN <<>>
    ELSE IF Len(l) = 1 THEN l[1]
    ELSE l[1] \o sep \o Join(sep, Tail(l))

DigitChar == <<"0","1","2","3","4","5","6","7","8","9">>

\* str(n) of a natural number.
RECURSIVE DecimalText(_)
DecimalText(n) ==
    IF n < 10 THEN <<DigitChar[n + 1]>>
    ELSE Append(DecimalText(n \div 10), DigitChar[(n % 10) + 1])

\* The number of tenths f"{score:.1f}" shows: the nearest, a tie to the even one.
\* The quotient is exact here; the float the code holds, (m / n) * 100 in
\* doubles, shows the same tenth for every job description of fewer than 80
\* distinct words (23 of 80 is the first to differ: 28.7 for 28.75).
RoundedTenths(score) ==
    LET q == (10 * score.num) \div score.den
        r == (10 * score.num) % score.den
    IN  IF 2 * r > score.den THEN q + 1
        ELSE IF 2 * r = score.den THEN q + (q % 2)
        ELSE q

\* f"{score:.1f}" of a score >= 0.
FormatScore(score) ==
    LET t == RoundedTenths(score)
    IN  DecimalText(t \div 10) \o <<".">> \o <<DigitChar[(t % 10) + 1]>>

\* The block appended without the test of the list.
optimize_resume_always(rt, an) ==
    LET missing_keywords == Join(<<",", " ">>, FirstKeywords(an.missing_keywords))
        suggestion == SuggestionHeader
                      \o (KeywordsLead \o missing_keywords \o <<"\n">>)
                      \o (MatchesLead \o FormatScore(an.score) \o MatchesTail)
    IN  rt \o suggestion

optimize_resume(rt, an) ==
    IF an.missing_keywords # <<>>
    THEN LET missing_keywords == Join(<<",", " ">>, FirstKeywords(an.missing_keywords))
             suggestion == SuggestionHeader
                           \o (KeywordsLead \o missing_keywords \o <<"\n">>)
                           \o (MatchesLead \o FormatScore(an.score) \o MatchesTail)
         IN  rt \o suggestion
    ELSE rt

(***************************************************************************)
(* create_optimized_docx.  A paragraph holds a style and the content of    *)
(* its run: characters, and a break element where the text had a line      *)
(* feed or a carriage return (python-docx's Run.text setter).              *)
(***************************************************************************)
HeadingText ==
    <<"O","p","t","i","m","i","z","e","d"," ","R","e","s","u","m","e">>

BreakElement == "w:br"

\* optimized_text.split('\n'): the pieces between consecutive line feeds, one
\* more than there are line feeds.
SplitLines(s) ==
    LET feeds == {i \in 1..Len(s) : s[i] = "\n"}
        n == Cardinality(feeds)
        \* The position of the k-th line feed; 0 before the text, Len(s) + 1 after.
        Feed(k) == IF k = 0 THEN 0
                   ELSE IF k = n + 1 THEN Len(s) + 1
                   ELSE CHOOSE i \in feeds : Cardinality({j \in feeds : j <= i}) = k
    IN  [k \in 1..(n + 1) |-> SubSeq(s, Feed(k - 1) + 1, Feed(k) - 1)]

\* bool(para), without the strip.
LineIsNonEmpty(para) == para # <<>>

\* bool(para.strip())
StripIsNonEmpty(para) == \E i \in 1..Len(para) : para[i] \notin Whitespace

\* The run content python-docx stores for a text.
RunContent(text) ==
    [i \in 1..Len(text) |-> IF text[i] \in {"\n", "\r"} THEN BreakElement ELSE text[i]]

add_heading(d, text) == Append(d, [style |-> "Title", content |-> RunContent(text)])

add_paragraph(d, text) == Append(d, [style |-> "Normal", content |-> RunContent(text)])

RECURSIVE AddParagraphs(_, _)
AddParagraphs(d, paragraphs) ==
    IF paragraphs = <<>> THEN d
    ELSE AddParagraphs(IF StripIsNonEmpty(Head(paragraphs))
                       THEN add_paragraph(d, Head(paragraphs))
                       ELSE d,
                       Tail(paragraphs))

create_optimized_docx(optimized_text) ==
    AddParagraphs(add_heading(<<>>, HeadingText), SplitLines(optimized_text))

\* Paragraph.text: a break element reads back as a line feed.
ParagraphText(p) ==
    [i \in 1..Len(p.content) |->
        IF p.content[i] = BreakElement THEN "\n" ELSE p.content[i]]

\* [p.text for p in doc.paragraphs]
ParagraphTexts(d) == [i \in 1..Len(d) |-> ParagraphText(d[i])]

(***************************************************************************)
(* SpecOptimize: optimize_resume on a text and an analysis of the shape    *)
(* the comparison returns, applied once and once more to its own result,   *)
(* and create_optimized_docx on the text stored as optimized_text.         *)
(***************************************************************************)
MaxTextLen == 3

MaxKeywords == 11

MaxMatched == 2

DocChars == {"a", " ", "\n", "\r"}

\* Distinct lowercased tokens.
Vocabulary ==
    <<<<"s","q","l">>, <<"a","w","s">>, <<"c">>, <<"g","o">>, <<"j","a","v","a">>,
      <<"r","u","s","t">>, <<"k","8","s">>, <<"g","i","t">>, <<"c","i">>,
      <<"a","p","i">>, <<"x","m","l">>, <<"c","s","s">>, <<"v","u","e">>,
      <<"n","l","p">>>>

\* The tokens the resume shares with the job description.
MatchedVocabulary == <<<<"f","l","a","s","k">>, <<"p","y">>, <<"o","r","m">>>>

\* Keyword lists of every length up to MaxKeywords, in the rotated orders.
KeywordLists ==
    {[i \in 1..len |-> Vocabulary[((k + i - 1) % MaxKeywords) + 1]] :
        k \in 0..(MaxKeywords - 1), len \in 0..MaxKeywords}

\* What the comparison returns when the job description holds the tokens of l
\* and m tokens of the resume.
AnalysisOf(l, m) ==
    LET resume_words == {MatchedVocabulary[i] : i \in 1..m}
        job_words == Range(l) \cup resume_words
    IN  [score |-> ScoreOf(resume_words, job_words), missing_keywords |-> l]

InitOptimize ==
    /\ resume_text \in TextsOver(DocChars, MaxTextLen)
    /\ job_description = <<>>
    /\ analysis \in {AnalysisOf(l, m) : l \in KeywordLists, m \in 0..MaxMatched}
    /\ optimized = <<>>
    /\ doc = <<>>
    /\ pc = "analysed"
    /\ AppIdle

Optimize ==
    /\ pc = "analysed"
    /\ optimized' = optimize_resume(resume_text, analysis)
    /\ pc' = "optimized"
    /\ UNCHANGED <<resume_text, job_description, analysis, doc>>
    /\ UNCHANGED appVars

OptimizeAgain ==
    /\ pc = "optimized"
    /\ optimized' = optimize_resume(optimized, analysis)
    /\ pc' = "reoptimized"
    /\ UNCHANGED <<resume_text, job_description, analysis, doc>>
    /\ UNCHANGED appVars

ExportDocx ==
    /\ pc = "optimized"
    /\ doc' = create_optimized_docx(optimized)
    /\ pc' = "exported"
    /\ UNCHANGED <<resume_text, job_description, analysis, optimized>>
    /\ UNCHANGED appVars

NextOptimize == Optimize \/ OptimizeAgain \/ ExportDocx

SpecOptimize == InitOptimize /\ [][NextOptimize]_vars

(***************************************************************************)
(* The routes.  A client is a browser with its own session cookie; the     *)
(* tables are shared.                                                      *)
(***************************************************************************)
MaxResumes == 1

Clients == {"c1", "c2"}

Usernames == {"ann", "bob"}

Emails == {"ann@x.org", "bob@x.org"}

Passwords == {"pw1", "pw2"}

\* The passwords the register form is filled with.
RegisterPasswords == {"pw1"}

ALLOWED_EXTENSIONS == {<<"p","d","f">>, <<"d","o","c","x">>}

\* file.filename of the uploaded part.
Filenames ==
    {<<>>, <<"c","v",".","p","d","f">>, <<"c","v",".","D","O","C","X">>,
     <<"c","v",".","t","x","t">>, <<".","p","d","f">>, <<"c","v">>}

\* The text parse_resume extracts from the uploaded file.
UploadTexts == {<<"A"," ","b","\n">>}

\* request.form.get('job_description', '')
JobTexts == {<<>>, <<" ">>, <<"a"," ","C">>, <<"c"," ","D">>}

Anonymous == 0

\* current_user.is_authenticated
is_authenticated(c) == session[c] # Anonymous

\* generate_password_hash: a value only the same password checks against.
generate_password_hash(password) == <<"hash", password>>

check_password_hash(pwhash, password) == pwhash = <<"hash", password>>

\* User.query.filter_by(username=username).first()
UsersByUsername(username) == SelectSeq(users, LAMBDA u : u.username = username)

\* User.query.filter_by(email=email).first()
UsersByEmail(email) == SelectSeq(users, LAMBDA u : u.email = email)

\* The columns without unique=True.
NoUniqueConstraints(username, email) == TRUE

\* The unique=True constraints of User.username and User.email, checked by
\* the database when the insert is committed.
UniqueConstraintsAllow(username, email) ==
    /\ UsersByUsername(username) = <<>>
    /\ UsersByEmail(email) = <<>>

\* new_user = User(username=username, email=email); new_user.set_password(password)
NewUser(username, email, password) ==
    [id |-> Len(users) + 1,
     username |-> username,
     email |-> email,
     password_hash |-> generate_password_hash(password)]

Response(c, request, kind, resume_id, body) ==
    [client |-> c, request |-> request, kind |-> kind, resume_id |-> resume_id, body |-> body]

NoResponse == Response("c1", "none", "none", 0, <<>>)

NoPending == [c \in Clients |-> <<>>]

\* The passes of register's existence checks: "ok", or the redirect.
RegisterChecks(username, email) ==
    IF UsersByUsername(username) # <<>> THEN "username_exists"
    ELSE IF UsersByEmail(email) # <<>> THEN "email_exists"
    ELSE "ok"

\* db.session.add(new_user); db.session.commit(): the row is inserted unless
\* a unique constraint refuses it (IntegrityError, the request fails).
CommitUser(c, username, email, password) ==
    IF UniqueConstraintsAllow(username, email)
    THEN /\ users' = Append(users, NewUser(username, email, password))
         /\ response' = Response(c, "register", "redirect_login", 0, <<>>)
    ELSE /\ users' = users
         /\ response' = Response(c, "register", "integrity_error", 0, <<>>)

\* register, a POST, run without another request in between.
register(c, username, email, password) ==
    /\ IF is_authenticated(c)
       THEN /\ response' = Response(c, "register", "redirect_dashboard", 0, <<>>)
            /\ users' = users
       ELSE IF RegisterChecks(username, email) # "ok"
            THEN /\ response' = Response(c, "register", RegisterChecks(username, email), 0, <<>>)
                 /\ users' = users
            ELSE CommitUser(c, username, email, password)
    /\ UNCHANGED <<resumes, session, pending>>
    /\ UNCHANGED coreVars

\* register up to db.session.add: the checks have passed, the commit is to come.
RegisterCheck(c, username, email, password) ==
    /\ pending[c] = <<>>
    /\ IF is_authenticated(c)
       THEN /\ response' = Response(c, "register", "redirect_dashboard", 0, <<>>)
            /\ pending' = pending
       ELSE IF RegisterChecks(username, email) # "ok"
            THEN /\ response' = Response(c, "register", RegisterChecks(username, email), 0, <<>>)
                 /\ pending' = pending
            ELSE /\ response' = response
                 /\ pending' = [pending EXCEPT ![c] =
                        <<[username |-> username, email |-> email, password |-> password]>>]
    /\ UNCHANGED <<users, resumes, session>>
    /\ UNCHANGED coreVars

\* register from db.session.commit() on.
RegisterCommit(c) ==
    /\ pending[c] # <<>>
    /\ CommitUser(c, pending[c][1].username, pending[c][1].email, pending[c][1].password)
    /\ pending' = [pending EXCEPT ![c] = <<>>]
    /\ UNCHANGED <<resumes, session>>
    /\ UNCHANGED coreVars

\* login, a POST.
login(c, username, password) ==
    /\ IF is_authenticated(c)
       THEN /\ response' = Response(c, "login", "redirect_dashboard", 0, <<>>)
            /\ session' = session
       ELSE LET found == UsersByUsername(username)
            IN  IF found # <<>> /\ check_password_hash(found[1].password_hash, password)
                THEN /\ session' = [session EXCEPT ![c] = found[1].id]
                     /\ response' = Response(c, "login", "redirect_dashboard", 0, <<>>)
                ELSE /\ session' = session
                     /\ response' = Response(c, "login", "invalid_login", 0, <<>>)
    /\ UNCHANGED <<users, resumes, pending>>
    /\ UNCHANGED coreVars

\* logout, behind @login_required.
logout(c) ==
    /\ IF is_authenticated(c)
       THEN /\ session' = [session EXCEPT ![c] = Anonymous]
            /\ response' = Response(c, "logout", "redirect_index", 0, <<>>)
       ELSE /\ session' = session
            /\ response' = Response(c, "logout", "redirect_login", 0, <<>>)
    /\ UNCHANGED <<users, resumes, pending>>
    /\ UNCHANGED coreVars

HasDot(filename) == \E i \in 1..Len(filename) : filename[i] = "."

\* filename.rsplit('.', 1)[1] of a filename with a dot.
AfterLastDot(filename) ==
    LET last == CHOOSE i \in 1..Len(filename) :
                    /\ filename[i] = "."
                    /\ \A j \in (i + 1)..Len(filename) : filename[j] # "."
    IN  SubSeq(filename, last + 1, Len(filename))

allowed_file(filename) ==
    HasDot(filename) /\ Lower(AfterLastDot(filename)) \in ALLOWED_EXTENSIONS

\* werkzeug's secure_filename on a name of letters, digits, dots and
\* underscores: the dots and underscores at either end are stripped.
secure_filename(filename) ==
    LET kept == {i \in 1..Len(filename) : filename[i] \notin {".", "_"}}
    IN  IF kept = {} THEN <<>>
        ELSE SubSeq(filename,
                    CHOOSE i \in kept : \A j \in kept : i <= j,
                    CHOOSE i \in kept : \A j \in kept : j <= i)

\* The (optimized_text, ats_score) pairs upload_resume can store.
AnalyseUpload(rt, jd) ==
    IF jd # <<>>
    THEN {<<optimize_resume(rt, an), an.score>> : an \in compare_with_job_description(rt, jd)}
    ELSE {<<rt, ZeroScore>>}

\* upload_resume, a POST, behind @login_required.  has_part: 'resume' is in
\* request.files.
upload_resume(c, has_part, file_name, extracted, jd) ==
    /\ Len(resumes) < MaxResumes
    /\ IF ~is_authenticated(c)
       THEN /\ response' = Response(c, "upload", "redirect_login", 0, <<>>)
            /\ resumes' = resumes
       ELSE IF ~has_part \/ file_name = <<>>
       THEN /\ response' = Response(c, "upload", "redirect_upload", 0, <<>>)
            /\ resumes' = resumes
       ELSE IF ~allowed_file(file_name)
       THEN /\ response' = Response(c, "upload", "upload_page", 0, <<>>)
            /\ resumes' = resumes
       ELSE IF ~HasDot(secure_filename(file_name))
       THEN \* filename.rsplit('.', 1)[1] raises IndexError
            /\ response' = Response(c, "upload", "index_error", 0, <<>>)
            /\ resumes' = resumes
       ELSE \E result \in AnalyseUpload(extracted, jd) :
            LET filename == secure_filename(file_name)
                new_resume ==
                    [id |-> Len(resumes) + 1,
                     filename |-> filename,
                     original_text |-> extracted,
                     optimized_text |-> result[1],
                     job_description |-> jd,
                     ats_score |-> result[2],
                     user_id |-> session[c],
                     file_type |-> Lower(AfterLastDot(filename))]
            IN  /\ resumes' = Append(resumes, new_resume)
                /\ response' = Response(c, "upload", "redirect_view", new_resume.id, <<>>)
    /\ UNCHANGED <<users, session, pending>>
    /\ UNCHANGED coreVars

\* The route without the ownership check.
ResumeAccessAnyUser(c, resume_id) ==
    IF ~is_authenticated(c) THEN "redirect_login"
    ELSE IF resume_id \notin 1..Len(resumes) THEN "not_found"
    ELSE "ok"

\* What a route does between @login_required and its body: the login
\* redirect, the 404 of get_or_404, the ownership check.
ResumeAccess(c, resume_id) ==
    IF ~is_authenticated(c) THEN "redirect_login"
    ELSE IF resume_id \notin 1..Len(resumes) THEN "not_found"
    ELSE IF resumes[resume_id].user_id # session[c] THEN "redirect_dashboard"
    ELSE "ok"

\* view_resume
view_resume(c, resume_id) ==
    /\ response' =
          IF ResumeAccess(c, resume_id) = "ok"
          THEN Response(c, "view", "page", resume_id, <<resumes[resume_id]>>)
          ELSE Response(c, "view", ResumeAccess(c, resume_id), resume_id, <<>>)
    /\ UNCHANGED <<users, resumes, session, pending>>
    /\ UNCHANGED coreVars

\* download_name=f"optimized_{resume.filename.rsplit('.', 1)[0]}.docx"
DownloadName(filename) ==
    <<"o","p","t","i","m","i","z","e","d","_">>
    \o SubSeq(filename, 1, Len(filename) - Len(AfterLastDot(filename)) - 1)
    \o <<".","d","o","c","x">>

\* download_resume
download_resume(c, resume_id) ==
    /\ response' =
          IF ResumeAccess(c, resume_id) = "ok"
          THEN Response(c, "download", "file", resume_id,
                        <<[paragraphs |-> create_optimized_docx(resumes[resume_id].optimized_text),
                           download_name |-> DownloadName(resumes[resume_id].filename)]>>)
          ELSE Response(c, "download", ResumeAccess(c, resume_id), resume_id, <<>>)
    /\ UNCHANGED <<users, resumes, session, pending>>
    /\ UNCHANGED coreVars

CoreIdle ==
    /\ resume_text = <<>>
    /\ job_description = <<>>
    /\ analysis = NoAnalysis
    /\ optimized = <<>>
    /\ doc = <<>>
    /\ pc = "routes"

\* The database after db.create_all(), no request served yet.
Init ==
    /\ users = <<>>
    /\ resumes = <<>>
    /\ session = [c \in Clients |-> Anonymous]
    /\ pending = NoPending
    /\ response = NoResponse
    /\ CoreIdle

Next ==
    \/ \E c \in Clients, u \in Usernames, e \in Emails, p \in RegisterPasswords :
          register(c, u, e, p)
    \/ \E c \in Clients, u \in Usernames, p \in Passwords : login(c, u, p)
    \/ \E c \in Clients : logout(c)
    \/ \E c \in Clients, has_part \in BOOLEAN, f \in Filenames,
          t \in UploadTexts, jd \in JobTexts : upload_resume(c, has_part, f, t, jd)
    \/ \E c \in Clients, id \in 1..(MaxResumes + 1) : view_resume(c, id)
    \/ \E c \in Clients, id \in 1..(MaxResumes + 1) : download_resume(c, id)

Spec == Init /\ [][Next]_vars

(***************************************************************************)
(* SpecRegister: register requests of several clients, each in two steps,  *)
(* with login and logout.                                                  *)
(***************************************************************************)
NextRegister ==
    \/ \E c \in Clients, u \in Usernames, e \in Emails, p \in RegisterPasswords :
          RegisterCheck(c, u, e, p)
    \/ \E c \in Clients : RegisterCommit(c)
    \/ \E c \in Clients, u \in Usernames, p \in Passwords : login(c, u, p)
    \/ \E c \in Clients : logout(c)

SpecRegister == Init /\ [][NextRegister]_vars

(***************************************************************************)
(* Properties of compare_with_job_description (SpecCompare).               *)
(***************************************************************************)
\* A maximal run of word characters of s lies at i..j.
IsTokenAt(s, i, j) ==
    /\ i <= j
    /\ \A k \in i..j : s[k] \in WordChars
    /\ i = 1 \/ s[i - 1] \notin WordChars
    /\ j = Len(s) \/ s[j + 1] \notin WordChars

\* The lowercased word tokens of a text.
LowercasedTokens(s) ==
    {Lower(SubSeq(s, i, j)) : <<i, j>> \in {ij \in (1..Len(s)) \X (1..Len(s)) : IsTokenAt(s, ij[1], ij[2])}}

jobWords == LowercasedTokens(job_description)

resumeWords == LowercasedTokens(resume_text)

\* C1: for every pair of texts, the empty text and texts without a token
\* included, the score the comparison returns lies between 0 and 100.
ScoreInRange ==
    pc = "compared" =>
        /\ analysis.score.den > 0
        /\ 0 <= analysis.score.num
        /\ analysis.score.num <= 100 * analysis.score.den

ScoreStrictlyInside ==
    /\ pc = "compared"
    /\ 0 < analysis.score.num
    /\ analysis.score.num < 100 * analysis.score.den

\* C2: the score is 0 when the job description has no token, and otherwise
\* 100 * |jobWords \cap resumeWords| / |jobWords|: it depends on the two
\* token sets alone, not on how often or where a token occurs.
ScoreIsOverlapRatio ==
    pc = "compared" =>
        IF jobWords = {}
        THEN analysis.score.num = 0
        ELSE analysis.score.num * Cardinality(jobWords)
                = 100 * Cardinality(jobWords \cap resumeWords) * analysis.score.den

HalfOfJobWordsFound ==
    /\ pc = "compared"
    /\ Cardinality(jobWords) = 2
    /\ Cardinality(jobWords \cap resumeWords) = 1
    /\ Len(FindAll(resume_text)) = 2

\* C3: missing_keywords has no duplicates and, as a set, is exactly
\* jobWords \ resumeWords.
MissingIsJobMinusResume ==
    pc = "compared" =>
        LET l == analysis.missing_keywords
        IN  /\ \A i, j \in 1..Len(l) : l[i] = l[j] => i = j
            /\ Range(l) = jobWords \ resumeWords

OneOfTwoJobWordsMissing ==
    /\ pc = "compared"
    /\ Len(analysis.missing_keywords) = 1
    /\ Cardinality(jobWords) = 2
    /\ resumeWords \ jobWords # {}

\* C4 as stated: whenever the resume holds every token of the job description,
\* a job description without tokens included, the score is 100 and nothing is
\* missing.
FullCoverageScores100 ==
    (pc = "compared" /\ jobWords \subseteq resumeWords) =>
        /\ analysis.score.num = 100 * analysis.score.den
        /\ analysis.missing_keywords = <<>>

\* C4 amended: when the resume holds every token of the job description,
\* nothing is missing, and the score is 100 if the job description has a
\* token and 0 if it has none.
FullCoverageScores100UnlessNoJobWords ==
    (pc = "compared" /\ jobWords \subseteq resumeWords) =>
        /\ analysis.missing_keywords = <<>>
        /\ IF jobWords = {}
           THEN analysis.score.num = 0
           ELSE analysis.score.num = 100 * analysis.score.den

EveryJobWordFound ==
    /\ pc = "compared"
    /\ Cardinality(jobWords) = 2
    /\ jobWords \subseteq resumeWords
    /\ job_description # resume_text

(***************************************************************************)
(* Properties of optimize_resume and create_optimized_docx (SpecOptimize). *)
(***************************************************************************)
\* The keywords of l separated by ", ", built from the last one backwards.
RECURSIVE CommaSeparated(_)
CommaSeparated(l) ==
    IF Len(l) = 1 THEN l[1]
    ELSE CommaSeparated(SubSeq(l, 1, Len(l) - 1)) \o <<",", " ">> \o l[Len(l)]

DigitValue(c) == CHOOSE d \in 0..9 : DigitChar[d + 1] = c

\* The number a text of digits denotes.
RECURSIVE NumberShown(_)
NumberShown(t) ==
    IF t = <<>> THEN 0
    ELSE 10 * NumberShown(SubSeq(t, 1, Len(t) - 1)) + DigitValue(t[Len(t)])

Distance(a, b) == IF a < b THEN b - a ELSE a - b

\* t is a number with exactly one decimal place, and no number with one
\* decimal place is nearer to the score.
IsScoreToOneDecimal(t, score) ==
    /\ Len(t) >= 3
    /\ t[Len(t) - 1] = "."
    /\ \A i \in (1..Len(t)) \ {Len(t) - 1} : t[i] \in Digits
    /\ LET tenths == 10 * NumberShown(SubSeq(t, 1, Len(t) - 2)) + DigitValue(t[Len(t)])
       IN  2 * Distance(10 * score.num, tenths * score.den) <= score.den

\* C6: with a keyword missing, the result is the resume text, unmodified,
\* followed by one block of fixed format: the first min(10, n) missing
\* keywords in their order, separated by ", ", and the score to one decimal
\* place; no keyword after the tenth is listed.
SuggestionBlockFormat ==
    (pc = "optimized" /\ analysis.missing_keywords # <<>>) =>
        LET l == analysis.missing_keywords
            listed == SubSeq(l, 1, IF Len(l) < 10 THEN Len(l) ELSE 10)
            head == resume_text \o SuggestionHeader \o KeywordsLead
                    \o CommaSeparated(listed) \o <<"\n">> \o MatchesLead
            shown == SubSeq(optimized, Len(head) + 1, Len(optimized) - Len(MatchesTail))
        IN  /\ SubSeq(optimized, 1, Len(resume_text)) = resume_text
            /\ optimized = head \o shown \o MatchesTail
            /\ IsScoreToOneDecimal(shown, analysis.score)

MoreThanTenMissing ==
    /\ pc = "optimized"
    /\ Len(analysis.missing_keywords) > 10
    /\ resume_text # <<>>
    /\ analysis.score.num > 0

\* C7: with no keyword missing, optimize_resume returns its text unchanged,
\* whatever the text and the score, and so does applying it again to the
\* result.
UnchangedWhenNothingMissing ==
    (pc \in {"optimized", "reoptimized"} /\ analysis.missing_keywords = <<>>) =>
        optimized = resume_text

AppliedTwiceNothingMissing ==
    /\ pc = "reoptimized"
    /\ analysis.missing_keywords = <<>>
    /\ analysis.score.num = 100 * analysis.score.den
    /\ resume_text # <<>>

IsBlank(line) == \A i \in 1..Len(line) : line[i] \in Whitespace

IsNotBlank(line) == ~IsBlank(line)

\* The lines of a text that are neither empty nor whitespace only, in order.
NonBlankLines(text) == SelectSeq(SplitLines(text), IsNotBlank)

\* C8 as stated: the paragraph texts of the exported document are the
\* non-blank lines of the text, in order, and nothing else.
ParagraphsAreNonBlankLines ==
    pc = "exported" => ParagraphTexts(doc) = NonBlankLines(optimized)

CarriageReturnsAsLineFeeds(line) ==
    [i \in 1..Len(line) |-> IF line[i] = "\r" THEN "\n" ELSE line[i]]

\* C8 amended: the paragraph texts of the exported document are the heading
\* "Optimized Resume" followed by the non-blank lines of the text, in order,
\* each with its carriage returns read back as line feeds; blank lines are
\* dropped.
ParagraphsAreHeadingThenNonBlankLines ==
    pc = "exported" =>
        LET lines == NonBlankLines(optimized)
        IN  ParagraphTexts(doc) =
                <<HeadingText>> \o [i \in 1..Len(lines) |-> CarriageReturnsAsLineFeeds(lines[i])]

ExportedDroppingBlankLines ==
    /\ pc = "exported"
    /\ analysis.missing_keywords # <<>>
    /\ Len(NonBlankLines(optimized)) + 2 < Len(SplitLines(optimized))
    /\ \E i \in 1..Len(NonBlankLines(optimized)) : "\r" \in Range(NonBlankLines(optimized)[i])
    /\ Len(doc) = Len(NonBlankLines(optimized)) + 1

(***************************************************************************)
(* Properties of the routes (Spec, SpecRegister).                          *)
(***************************************************************************)
\* C5: an empty job description is not an error: the comparison returns
\* score 0 and no missing keyword, optimize_resume returns the text
\* unmodified for that result, and the record the upload route stores has
\* ats_score 0 and optimized_text equal to original_text.
EmptyJobDescriptionScoresZero ==
    /\ \A i \in 1..Len(resumes) :
          resumes[i].job_description = <<>> =>
              /\ resumes[i].ats_score.num = 0
              /\ resumes[i].optimized_text = resumes[i].original_text
    /\ \A rt \in UploadTexts :
          /\ compare_with_job_description(rt, <<>>) # {}
          /\ \A an \in compare_with_job_description(rt, <<>>) :
                /\ an.score.num = 0
                /\ an.missing_keywords = <<>>
                /\ optimize_resume(rt, an) = rt

StoredWithEmptyJobDescription ==
    \E i \in 1..Len(resumes) :
        /\ resumes[i].job_description = <<>>
        /\ resumes[i].original_text # <<>>
        /\ response.request = "upload"

\* C9: a record is owned by the user logged in when it was uploaded; view
\* and download answer with a record's content only to the logged-in user
\* whose id is the record's user_id, redirect another logged-in user to the
\* dashboard without it, and send a client that is not logged in to the
\* login page before the record is read.
OnlyOwnerReadsResume ==
    LET c == response.client
        id == response.resume_id
    IN  /\ \A i \in 1..Len(resumes) : resumes[i].user_id \in 1..Len(users)
        /\ (response.request = "upload" /\ response.kind = "redirect_view") =>
              /\ id = Len(resumes)
              /\ is_authenticated(c)
              /\ resumes[id].user_id = session[c]
        /\ response.request \in {"view", "download"} =>
              /\ response.body # <<>> =>
                    /\ is_authenticated(c)
                    /\ id \in 1..Len(resumes)
                    /\ resumes[id].user_id = session[c]
                    /\ response.request = "view" => response.body = <<resumes[id]>>
                    /\ response.request = "download" =>
                          response.body[1].paragraphs
                              = create_optimized_docx(resumes[id].optimized_text)
              /\ ~is_authenticated(c) =>
                    /\ response.kind = "redirect_login"
                    /\ response.body = <<>>
              /\ (is_authenticated(c) /\ id \in 1..Len(resumes)
                    /\ resumes[id].user_id # session[c]) =>
                    /\ response.kind = "redirect_dashboard"
                    /\ response.body = <<>>

OtherUserTurnedAway ==
    /\ response.request \in {"view", "download"}
    /\ is_authenticated(response.client)
    /\ response.resume_id \in 1..Len(resumes)
    /\ resumes[response.resume_id].user_id # session[response.client]

UsersAreUnique ==
    \A i, j \in 1..Len(users) :
        i # j => /\ users[i].username # users[j].username
                 /\ users[i].email # users[j].email

\* A step leaves the user table alone or appends one user whose username
\* and email no user had.
OnlyNewUsersAdded ==
    \/ users' = users
    \/ /\ Len(users') = Len(users) + 1
       /\ SubSeq(users', 1, Len(users)) = users
       /\ \A i \in 1..Len(users) :
             /\ users[i].username # users'[Len(users')].username
             /\ users[i].email # users'[Len(users')].email

\* C10: after any register requests, also two with the same username or email
\* interleaved between the existence check and the commit, no two users
\* share a username or an email; a request whose username or email exists
\* adds no user and changes none.
UsersStayUnique == []UsersAreUnique /\ [][OnlyNewUsersAdded]_vars

RaceRefusedAtCommit ==
    /\ response.request = "register"
    /\ response.kind = "integrity_error"
    /\ Len(users) = 1

====
